---- MODULE Spec2Model ----
(***************************************************************************)
(* A model of the ctags parser of arduino-cli (package ctags): parseTag    *)
(* and the filter/transform pipeline of Parser.Parse.                      *)
(*                                                                         *)
(* Go strings are TLA+ strings; Go's 0-based half-open slices s[lo:hi] are *)
(* written Slice(s, lo, hi).  A Go run-time panic (index or slice bounds   *)
(* out of range) is an outcome of its own, never a value.                  *)
(***************************************************************************)
EXTENDS Integers, Sequences, FiniteSets, TLC

VARIABLES
    tags,        \* Parser.tags: the Tag records, in append order
    mainFile,    \* Parser.mainFile
    pc,          \* the statement of Parse the (single) goroutine is at
    ctagsOutput, \* the argument of the Parse call in progress (or of the last one)
    result,      \* what the last completed Parse returned
    used,        \* whether Parse has been called on this Parser before
    failed,      \* history: the records whose template reconstruction failed
    dedupLive,   \* history: the records not yet skipped when skipDuplicates began
    \* FeedStreamTo
    fBuf,        \* the bytes in the buffer of the nio pipe
    fWerr,       \* the write side of the pipe is closed
    fRerr,       \* the read side of the pipe is closed
    fPc,         \* the statement the relay goroutine is at
    fData,       \* data[:n] of the relay goroutine
    fDone,       \* ctx is done
    fCaller,     \* the caller's Write: "idle", or "write" while it waits for space
    fPending,    \* the bytes of the Write in progress not yet in the buffer
    fRet,        \* the error the last Write returned
    fOffered,    \* history: number of bytes passed to Write so far
    fAccepted,   \* history: the bytes Write has put into the pipe
    fAtClose,    \* history: fAccepted when Close was called
    fDelivered,  \* history: the chunks passed to the writer callback, concatenated
    fCalls,      \* history: invocations of the writer callback in progress
    \* ConsumeStreamFrom
    cPc,         \* the statement the relay goroutine is at
    cPending,    \* the bytes of w.Write in progress not yet read
    cWerr,       \* the error the write side of the pipe was closed with
    cRets,       \* history: the errors the reader function returned, in call order
    cChunks,     \* history: the chunks the reader function returned without error
    cRead,       \* history: the bytes the consumer has read
    cLast        \* what the consumer's last Read returned

parserVars == <<tags, mainFile, pc, ctagsOutput, result, used, failed, dedupLive>>

feedVars == <<fBuf, fWerr, fRerr, fPc, fData, fDone, fCaller, fPending, fRet,
              fOffered, fAccepted, fAtClose, fDelivered, fCalls>>

consumeVars == <<cPc, cPending, cWerr, cRets, cChunks, cRead, cLast>>

vars == <<parserVars, feedVars, consumeVars>>

----------------------------------------------------------------------------
(* Bounds of the model. *)

\* rows of one ctags output
MaxRows == 2
\* Tag records a Parser may hold: no Parse call is made that would exceed it
MaxTags == 2

----------------------------------------------------------------------------
(* Package strings / strconv, as far as the parser uses them. *)

Min(S) == CHOOSE m \in S : \A n \in S : m <= n
Max(S) == CHOOSE m \in S : \A n \in S : m >= n

\* s[lo:hi]
Slice(s, lo, hi) == SubSeq(s, lo + 1, hi)

\* whether sub occurs in s at 0-based index i
OccursAt(s, sub, i) == Slice(s, i, i + Len(sub)) = sub

\* strings.Index(s, sub): 0-based index of the first occurrence, or -1
Index(s, sub) ==
    IF \E i \in 0..(Len(s) - Len(sub)) : OccursAt(s, sub, i)
    THEN CHOOSE i \in 0..(Len(s) - Len(sub)) :
            /\ OccursAt(s, sub, i)
            /\ \A k \in 0..(i - 1) : ~OccursAt(s, sub, k)
    ELSE -1

\* strings.LastIndex(s, sub)
LastIndex(s, sub) ==
    LET at == {i \in 0..(Len(s) - Len(sub)) : OccursAt(s, sub, i)}
    IN  IF at = {} THEN -1 ELSE Max(at)

\* strings.Contains(s, sub)
Contains(s, sub) == Index(s, sub) >= 0

\* strings.Split(s, sep), sep non-empty
RECURSIVE Split(_, _)
Split(s, sep) ==
    LET i == Index(s, sep)
    IN  IF i < 0 THEN <<s>>
        ELSE <<Slice(s, 0, i)>> \o Split(Slice(s, i + Len(sep), Len(s)), sep)

\* the white space strings.TrimSpace removes (of the characters a row can hold)
IsSpace(c) == c \in {" ", "\t", "\n", "\r"}

\* strings.TrimSpace(s)
TrimSpace(s) ==
    LET keep == {i \in 1..Len(s) : ~IsSpace(SubSeq(s, i, i))}
    IN  IF keep = {} THEN "" ELSE SubSeq(s, Min(keep), Max(keep))

\* strings.Replace(s, old, new, 1): the first occurrence only
ReplaceFirst(s, old, new) ==
    LET i == Index(s, old)
    IN  IF i < 0 THEN s
        ELSE Slice(s, 0, i) \o new \o Slice(s, i + Len(old), Len(s))

\* strings.ReplaceAll(s, old, new), old non-empty: left to right, no overlap
RECURSIVE ReplaceAll(_, _, _)
ReplaceAll(s, old, new) ==
    LET i == Index(s, old)
    IN  IF i < 0 THEN s
        ELSE Slice(s, 0, i) \o new
             \o ReplaceAll(Slice(s, i + Len(old), Len(s)), old, new)

\* the largest int of a build whose int is 32 bits wide (strconv.IntSize = 32)
MaxInt == 2147483647
MinInt == (-MaxInt) - 1

Digits == <<"0", "1", "2", "3", "4", "5", "6", "7", "8", "9">>
IsDigit(c) == \E d \in 1..10 : Digits[d] = c
DigitVal(c) == (CHOOSE d \in 1..10 : Digits[d] = c) - 1

\* the value of a digit string, or -1 once it exceeds MaxInt
RECURSIVE Magnitude(_, _)
Magnitude(s, acc) ==
    IF s = "" THEN acc
    ELSE LET d == DigitVal(Head(s))
         IN  IF acc > (MaxInt - d) \div 10 THEN -1
             ELSE Magnitude(Tail(s), acc * 10 + d)

\* strconv.Atoi(s): [val, err].  A syntax error gives 0; a value out of range
\* gives the nearest int (and an error).
Atoi(s) ==
    LET signed == s # "" /\ Head(s) \in {"+", "-"}
        neg    == s # "" /\ Head(s) = "-"
        body   == IF signed THEN Tail(s) ELSE s
        syntax == body = "" \/ \E i \in 1..Len(body) : ~IsDigit(SubSeq(body, i, i))
        m      == Magnitude(body, 0)
    IN  IF syntax THEN [val |-> 0, err |-> TRUE]
        ELSE IF m < 0 THEN [val |-> IF neg THEN MinInt ELSE MaxInt, err |-> TRUE]
        ELSE [val |-> IF neg THEN -m ELSE m, err |-> FALSE]

----------------------------------------------------------------------------
(* Constants of the package. *)

kindPrototype   == "prototype"
kindFunction    == "function"
keywordTemplate == "template"
keywordStatic   == "static"
keywordExternC  == "extern \"C\""

knownTagKinds == {"prototype", "function"}

\* &Tag{}: every field at its zero value
ZeroTag ==
    [FunctionName |-> "", Kind |-> "", Line |-> 0, Code |-> "", Class |-> "",
     Struct |-> "", Namespace |-> "", Filename |-> "", Typeref |-> "",
     SkipMe |-> FALSE, Signature |-> "", Prototype |-> "",
     PrototypeModifiers |-> ""]

----------------------------------------------------------------------------
(* parseTag *)

\* one iteration of the loop over parts[2:]: acc is [tag, returntype]
ParseField(acc, part) ==
    IF ~Contains(part, ":") THEN acc
    ELSE LET colon == Index(part, ":")
             fld   == Slice(part, 0, colon)
             value == TrimSpace(Slice(part, colon + 1, Len(part)))
         IN  CASE fld = "kind"       -> [acc EXCEPT !.tag.Kind = value]
               [] fld = "line"       -> [acc EXCEPT !.tag.Line = Atoi(value).val]
               [] fld = "typeref"    -> [acc EXCEPT !.tag.Typeref = value]
               [] fld = "signature"  -> [acc EXCEPT !.tag.Signature = value]
               [] fld = "returntype" -> [acc EXCEPT !.returntype = value]
               [] fld = "class"      -> [acc EXCEPT !.tag.Class = value]
               [] fld = "struct"     -> [acc EXCEPT !.tag.Struct = value]
               [] fld = "namespace"  -> [acc EXCEPT !.tag.Namespace = value]
               [] OTHER              -> acc

RECURSIVE ParseFields(_, _)
ParseFields(acc, parts) ==
    IF parts = <<>> THEN acc
    ELSE ParseFields(ParseField(acc, Head(parts)), Tail(parts))

\* parseTag(row): [panic |-> FALSE, tag |-> the Tag], or [panic |-> TRUE] where
\* the Go code indexes or slices out of range
parseTag(row) ==
    LET parts == Split(row, "\t")
    IN  IF Len(parts) < 2 THEN [panic |-> TRUE, tag |-> ZeroTag]   \* parts[1]
        ELSE
        LET t0  == [ZeroTag EXCEPT !.FunctionName = parts[1],
                                   !.Filename = ReplaceAll(parts[2], "\\\\", "\\")]
            acc == ParseFields([tag |-> t0, returntype |-> ""],
                               SubSeq(parts, 3, Len(parts)))
            t1  == [acc.tag EXCEPT !.Prototype =
                       acc.returntype \o " " \o acc.tag.FunctionName
                       \o acc.tag.Signature \o ";"]
            lo  == Index(row, "/^") + 2
            hi  == Index(row, "$/;")
        IN  IF Contains(row, "/^") /\ Contains(row, "$/;")
            THEN IF lo > hi THEN [panic |-> TRUE, tag |-> t1]   \* row[lo:hi]
                 ELSE [panic |-> FALSE, tag |-> [t1 EXCEPT !.Code = Slice(row, lo, hi)]]
            ELSE [panic |-> FALSE, tag |-> t1]

\* removeEmpty(rows)
RECURSIVE removeEmpty(_)
removeEmpty(rows) ==
    IF rows = <<>> THEN <<>>
    ELSE LET row == TrimSpace(Head(rows))
         IN  (IF Len(row) > 0 THEN <<row>> ELSE <<>>) \o removeEmpty(Tail(rows))

----------------------------------------------------------------------------
(* The filter predicates and addPrototype. *)

removeTralingSemicolon(s) == Slice(s, 0, Len(s) - 1)

removeSpacesAndTabs(s) == ReplaceAll(ReplaceAll(s, " ", ""), "\t", "")

\* isHandled without its namespace test
isHandledNoNamespace(tag) ==
    IF tag.Class # "" THEN FALSE
    ELSE IF tag.Struct # "" THEN FALSE
    ELSE TRUE

isHandled(tag) ==
    IF tag.Class # "" THEN FALSE
    ELSE IF tag.Struct # "" THEN FALSE
    ELSE IF tag.Namespace # "" THEN FALSE
    ELSE TRUE

tagIsUnhandled(tag) == ~isHandled(tag)

tagIsUnknown(tag) == tag.Kind \notin knownTagKinds

\* The sketch on disk, as the Line Source and the extern "C" detection see it.
SketchFile == "a"
SketchLines ==
    << "void f();",
       "template<class T>",
       "T k(T a) {}",
       "void f() {}",
       "static void f() {}",
       "extern \"C\" {",
       "void g() {}",
       "}" >>

\* Line Source: the contiguous lines of a declaration that ends at line `start`,
\* from the nearest line holding the template keyword; err when the file is
\* missing or the line is out of range or no such line exists
lines_from(path, start) ==
    LET from == {j \in 1..Len(SketchLines) :
                    j <= start /\ Contains(SketchLines[j], keywordTemplate)}
    IN  IF path # SketchFile \/ start \notin 1..Len(SketchLines) \/ from = {}
        THEN [err |-> TRUE, lines |-> <<>>]
        ELSE [err |-> FALSE, lines |-> SubSeq(SketchLines, Max(from), start)]

RECURSIVE JoinLines(_)
JoinLines(lines) ==
    IF lines = <<>> THEN ""
    ELSE IF Len(lines) = 1 THEN lines[1]
    ELSE lines[1] \o " " \o JoinLines(Tail(lines))

\* the declaration part of a line of code: up to the first "{", or else up to
\* and including the last ")"
DeclarationOf(code) ==
    IF Contains(code, "{") THEN Slice(code, 0, Index(code, "{"))
    ELSE Slice(code, 0, LastIndex(code, ")") + 1)

\* findTemplateMultiline(tag): the reconstructed declaration; a Line Source
\* failure marks the record (tag is a pointer) skipped
findTemplateMultiline(tag) ==
    LET ls == lines_from(tag.Filename, tag.Line)
    IN  IF ls.err THEN [tag |-> [tag EXCEPT !.SkipMe = TRUE], code |-> ""]
        ELSE [tag |-> tag, code |-> DeclarationOf(JoinLines(ls.lines))]

\* addPrototype takes the multi-line branch for this record and the Line Source
\* fails on it
ReconstructionFails(tag) ==
    /\ ~tag.SkipMe
    /\ Index(tag.Prototype, keywordTemplate) = 0
    /\ Index(tag.Code, keywordTemplate) # 0
    /\ lines_from(tag.Filename, tag.Line).err

\* addPrototype looking for "static " in the prototype text, not in the code
addPrototypeStaticInPrototype(tag) ==
    IF Index(tag.Prototype, keywordTemplate) = 0
    THEN IF Index(tag.Code, keywordTemplate) = 0
         THEN [tag EXCEPT !.Prototype = DeclarationOf(tag.Code) \o ";"]
         ELSE LET r == findTemplateMultiline(tag)
              IN  [r.tag EXCEPT !.Prototype = r.code \o ";"]
    ELSE LET mods == IF Contains(tag.Prototype, keywordStatic \o " ")
                     THEN "" \o " " \o keywordStatic
                     ELSE ""
         IN  [tag EXCEPT !.PrototypeModifiers = TrimSpace(mods)]

\* addPrototype cutting the code at its last "{"
addPrototypeLastBrace(tag) ==
    IF Index(tag.Prototype, keywordTemplate) = 0
    THEN IF Index(tag.Code, keywordTemplate) = 0
         THEN LET code == IF Contains(tag.Code, "{")
                          THEN Slice(tag.Code, 0, LastIndex(tag.Code, "{"))
                          ELSE Slice(tag.Code, 0, LastIndex(tag.Code, ")") + 1)
              IN  [tag EXCEPT !.Prototype = code \o ";"]
         ELSE LET r == findTemplateMultiline(tag)
              IN  [r.tag EXCEPT !.Prototype = r.code \o ";"]
    ELSE LET mods == IF Contains(tag.Code, keywordStatic \o " ")
                     THEN "" \o " " \o keywordStatic
                     ELSE ""
         IN  [tag EXCEPT !.PrototypeModifiers = TrimSpace(mods)]

\* addPrototype without line 111: the modifiers found are added to those the
\* record already has
addPrototypeNoReset(tag) ==
    IF Index(tag.Prototype, keywordTemplate) = 0
    THEN IF Index(tag.Code, keywordTemplate) = 0
         THEN [tag EXCEPT !.Prototype = DeclarationOf(tag.Code) \o ";"]
         ELSE LET r == findTemplateMultiline(tag)
              IN  [r.tag EXCEPT !.Prototype = r.code \o ";"]
    ELSE LET mods == IF Contains(tag.Code, keywordStatic \o " ")
                     THEN tag.PrototypeModifiers \o " " \o keywordStatic
                     ELSE tag.PrototypeModifiers
         IN  [tag EXCEPT !.PrototypeModifiers = TrimSpace(mods)]

addPrototype(tag) ==
    IF Index(tag.Prototype, keywordTemplate) = 0
    THEN IF Index(tag.Code, keywordTemplate) = 0
         THEN LET code == IF Contains(tag.Code, "{")
                          THEN Slice(tag.Code, 0, Index(tag.Code, "{"))
                          ELSE Slice(tag.Code, 0, LastIndex(tag.Code, ")") + 1)
              IN  [tag EXCEPT !.Prototype = code \o ";"]
         ELSE LET r == findTemplateMultiline(tag)
              IN  [r.tag EXCEPT !.Prototype = r.code \o ";"]
    ELSE LET mods == IF Contains(tag.Code, keywordStatic \o " ")
                     THEN "" \o " " \o keywordStatic
                     ELSE ""
         IN  [tag EXCEPT !.PrototypeModifiers = TrimSpace(mods)]

\* Parser.prototypeAndCodeDontMatch: the prototype, white space and the
\* trailing semicolon removed, does not occur in the code, white space removed
prototypeAndCodeDontMatch(tag) ==
    Index(removeSpacesAndTabs(tag.Code),
          removeTralingSemicolon(removeSpacesAndTabs(tag.Prototype))) = -1

\* the skipFunc values Parse passes to skipTagsWhere
skipFunc(which, tag) ==
    CASE which = "tagIsUnknown"              -> tagIsUnknown(tag)
      [] which = "tagIsUnhandled"            -> tagIsUnhandled(tag)
      [] which = "prototypeAndCodeDontMatch" -> prototypeAndCodeDontMatch(tag)

----------------------------------------------------------------------------
(* The passes of Parse, each a function of Parser.tags. *)

\* addPrototypes giving up at the first record whose reconstruction fails
addPrototypesAbortOnFailure(ts) ==
    [i \in DOMAIN ts |->
        IF ~ts[i].SkipMe /\ \A k \in 1..(i - 1) : ~ReconstructionFails(ts[k])
        THEN addPrototype(ts[i]) ELSE ts[i]]

addPrototypes(ts) ==
    [i \in DOMAIN ts |-> IF ~ts[i].SkipMe THEN addPrototype(ts[i]) ELSE ts[i]]

\* removeDefinedProtypes in one loop: a record is matched against the
\* prototype-kind records up to itself only
removeDefinedProtypesOnePass(ts) ==
    [i \in DOMAIN ts |->
        IF ts[i].Prototype \in
              {ts[j].Prototype : j \in {k \in 1..i : ts[k].Kind = kindPrototype}}
        THEN [ts[i] EXCEPT !.SkipMe = TRUE] ELSE ts[i]]

\* removeDefinedProtypes collecting the text of the prototype-kind records
\* that are not skipped only
removeDefinedProtypesLiveOnly(ts) ==
    LET definedPrototypes ==
            {ts[i].Prototype : i \in {j \in DOMAIN ts :
                                        ts[j].Kind = kindPrototype /\ ~ts[j].SkipMe}}
    IN  [i \in DOMAIN ts |->
            IF ts[i].Prototype \in definedPrototypes
            THEN [ts[i] EXCEPT !.SkipMe = TRUE] ELSE ts[i]]

\* removeDefinedProtypes skipping only the records that are not themselves of
\* kind prototype
removeDefinedProtypesOthersOnly(ts) ==
    LET definedPrototypes ==
            {ts[i].Prototype : i \in {j \in DOMAIN ts : ts[j].Kind = kindPrototype}}
    IN  [i \in DOMAIN ts |->
            IF ts[i].Prototype \in definedPrototypes /\ ts[i].Kind # kindPrototype
            THEN [ts[i] EXCEPT !.SkipMe = TRUE] ELSE ts[i]]

removeDefinedProtypes(ts) ==
    LET definedPrototypes ==
            {ts[i].Prototype : i \in {j \in DOMAIN ts : ts[j].Kind = kindPrototype}}
    IN  [i \in DOMAIN ts |->
            IF ts[i].Prototype \in definedPrototypes
            THEN [ts[i] EXCEPT !.SkipMe = TRUE] ELSE ts[i]]

\* skipDuplicates registering the text of already-skipped records too
RECURSIVE skipDuplicatesFromAll(_, _, _)
skipDuplicatesFromAll(ts, i, definedPrototypes) ==
    IF i > Len(ts) THEN ts
    ELSE IF ts[i].Prototype \notin definedPrototypes /\ ~ts[i].SkipMe
    THEN skipDuplicatesFromAll(ts, i + 1, definedPrototypes \cup {ts[i].Prototype})
    ELSE skipDuplicatesFromAll([ts EXCEPT ![i].SkipMe = TRUE], i + 1,
                               definedPrototypes \cup {ts[i].Prototype})

\* the loop of skipDuplicates from record i on, definedPrototypes as it stands
RECURSIVE skipDuplicatesFrom(_, _, _)
skipDuplicatesFrom(ts, i, definedPrototypes) ==
    IF i > Len(ts) THEN ts
    ELSE IF ts[i].Prototype \notin definedPrototypes /\ ~ts[i].SkipMe
    THEN skipDuplicatesFrom(ts, i + 1, definedPrototypes \cup {ts[i].Prototype})
    ELSE skipDuplicatesFrom([ts EXCEPT ![i].SkipMe = TRUE], i + 1, definedPrototypes)

\* skipDuplicates keeping every record
skipDuplicatesKeepAll(ts) == ts

skipDuplicates(ts) == skipDuplicatesFrom(ts, 1, {})

\* skipTagsWhere without its test of tag.SkipMe
skipTagsWhereUnguarded(ts, which) ==
    [i \in DOMAIN ts |-> [ts[i] EXCEPT !.SkipMe = skipFunc(which, ts[i])]]

skipTagsWhere(ts, which) ==
    [i \in DOMAIN ts |->
        IF ~ts[i].SkipMe THEN [ts[i] EXCEPT !.SkipMe = skipFunc(which, ts[i])]
        ELSE ts[i]]

\* the lines of a file that lie inside an extern "C" { ... } block
CLinkageLines(path) ==
    IF path # SketchFile THEN {}
    ELSE {j \in 1..Len(SketchLines) :
            \E i \in 1..(j - 1) :
                /\ Contains(SketchLines[i], keywordExternC \o " {")
                /\ \A k \in (i + 1)..j : SketchLines[k] # "}"}

fixCLinkageTagsDeclarations(ts) ==
    [i \in DOMAIN ts |->
        IF /\ ~ts[i].SkipMe
           /\ ts[i].Line \in CLinkageLines(ts[i].Filename)
           /\ ~Contains(ts[i].PrototypeModifiers, keywordExternC)
        THEN [ts[i] EXCEPT !.PrototypeModifiers =
                 TrimSpace(keywordExternC \o " " \o ts[i].PrototypeModifiers)]
        ELSE ts[i]]

\* the projection of one surviving record
PrototypeOf(tag) ==
    [FunctionName |-> tag.FunctionName, Prototype |-> tag.Prototype,
     Modifiers |-> tag.PrototypeModifiers, Line |-> tag.Line]

RECURSIVE toPrototypes(_)
toPrototypes(ts) ==
    IF ts = <<>> THEN <<>>
    ELSE (IF ~Head(ts).SkipMe THEN <<PrototypeOf(Head(ts))>> ELSE <<>>)
         \o toPrototypes(Tail(ts))

\* "no insertion required"
NoLine == -1

\* findLineWhereToInsertPrototypes taking the line of the first surviving record
findLineOfFirstSurvivor(ts, mf) ==
    LET live == {j \in DOMAIN ts : ~ts[j].SkipMe /\ ts[j].Filename = mf}
    IN  IF live = {} THEN NoLine ELSE ts[Min(live)].Line

findLineWhereToInsertPrototypes(ts, mf) ==
    LET lines == {ts[i].Line : i \in {j \in DOMAIN ts :
                                  ~ts[j].SkipMe /\ ts[j].Filename = mf}}
    IN  IF lines = {} THEN NoLine ELSE Min(lines)

\* the loop of Parse over rows: each row's Tag is appended as it is parsed, and
\* a panic of parseTag leaves the Tags appended so far
RECURSIVE appendParsed(_, _)
appendParsed(ts, rows) ==
    IF rows = <<>> THEN [panic |-> FALSE, tags |-> ts]
    ELSE LET r == parseTag(Head(rows))
         IN  IF r.panic THEN [panic |-> TRUE, tags |-> ts]
             ELSE appendParsed(Append(ts, r.tag), Tail(rows))

----------------------------------------------------------------------------
(* The inputs of the model. *)

RowF  == "f\ta\t/^void f() {}$/;\"\tkind:function\tline:4\tsignature:()\treturntype:void"
RowF0 == "f\ta\tkind:function\tline:4\tsignature:()\treturntype:void"
RowFn == "f\tb\t/^void f() {}$/;\"\tkind:function\tline:2\tnamespace:N\tsignature:()\treturntype:void"
RowFs == "f\ta\t/^static void f() {}$/;\"\tkind:function\tline:5\tsignature:()\treturntype:void"
RowP  == "f\ta\t/^void f();$/;\"\tkind:prototype\tline:1\tsignature:()\treturntype:void"
RowPn == "f\tb\t/^void f();$/;\"\tkind:prototype\tline:1\tnamespace:N\tsignature:()\treturntype:void"
RowV  == "x\ta\t/^int x;$/;\"\tkind:variable\tline:9"
RowT  == "m\ta\t/^template<class T> T m(T a) { T b{a}; }$/;\"\tkind:function\tline:10\tsignature:(T a)\treturntype:template<class T> T"
RowTn == "n\ta\t/^template<class T> T n(T (*p)(T));$/;\"\tkind:prototype\tline:11\tsignature:(T (*p)(T))\treturntype:template<class T> T"
RowK  == "k\ta\t/^T k(T a) {}$/;\"\tkind:function\tline:3\tsignature:(T a)\treturntype:template<class T> T"
RowKx == "k\tb\t/^T k(T a) {}$/;\"\tkind:function\tline:3\tsignature:(T a)\treturntype:template<class T> T"
RowG  == "g\ta\t/^void g() {}$/;\"\tkind:function\tline:7\tsignature:()\treturntype:void"
RowZ  == "z\ta\t/^void z() {}$/;\"\tkind:function\tsignature:()\treturntype:void"
RowH  == "h\tb\t/^void h() {}$/;\"\tkind:function\tline:2\tsignature:()\treturntype:void"
RowJ  == "junk"

Rows == {RowF, RowF0, RowFn, RowFs, RowP, RowPn, RowV, RowT, RowTn, RowK, RowKx, RowG,
         RowZ, RowH, RowJ}

\* the ctags outputs: up to MaxRows rows, each ended by a line feed
RECURSIVE Outputs(_)
Outputs(n) ==
    IF n = 0 THEN {""}
    ELSE Outputs(n - 1) \cup {r \o "\n" \o o : r \in Rows, o \in Outputs(n - 1)}

AllOutputs == Outputs(MaxRows)

MainFiles == {SketchFile}

\* lines 65-72 on each output, from an empty p.tags: the rows left by
\* removeEmpty, the Tags appended, and whether parseTag panicked
Parsed ==
    [out \in AllOutputs |->
        LET rows == removeEmpty(Split(out, "\n"))
            r    == appendParsed(<<>>, rows)
        IN  [rows |-> rows, tags |-> r.tags, panic |-> r.panic]]

----------------------------------------------------------------------------
(* Parser.Parse, statement by statement. *)

\* FeedStreamTo has returned: the pipe is empty and open, the goroutine started
InitFeed ==
    /\ fBuf = <<>>
    /\ fWerr = FALSE
    /\ fRerr = FALSE
    /\ fPc = "read"
    /\ fData = <<>>
    /\ fDone = FALSE
    /\ fCaller = "idle"
    /\ fPending = <<>>
    /\ fRet = "nil"
    /\ fOffered = 0
    /\ fAccepted = <<>>
    /\ fAtClose = <<>>
    /\ fDelivered = <<>>
    /\ fCalls = 0

\* ConsumeStreamFrom has returned: the pipe is open, the goroutine started
InitConsume ==
    /\ cPc = "reader"
    /\ cPending = <<>>
    /\ cWerr = "nil"
    /\ cRets = <<>>
    /\ cChunks = <<>>
    /\ cRead = <<>>
    /\ cLast = [n |-> 0, err |-> "nil"]

Init ==
    /\ tags = <<>>
    /\ mainFile = ""
    /\ pc = "idle"
    /\ ctagsOutput = ""
    /\ result = [prototypes |-> <<>>, line |-> NoLine]
    /\ used = FALSE
    /\ failed = {}
    /\ dedupLive = {}
    /\ InitFeed
    /\ InitConsume

\* lines 65-72: split, removeEmpty, set mainFile, parse and append every row
ParseRows(out, mf) ==
    /\ pc = "idle"
    /\ LET r == Parsed[out]
       IN  /\ Len(tags) + Len(r.rows) <= MaxTags
           /\ tags' = tags \o r.tags
           /\ pc' = IF r.panic THEN "panic" ELSE "tagIsUnknown"
    /\ mainFile' = mf
    /\ ctagsOutput' = out
    /\ used' = TRUE
    /\ UNCHANGED <<result, failed, dedupLive, feedVars, consumeVars>>

Pass(at, ts, next) ==
    /\ pc = at
    /\ tags' = ts
    /\ pc' = next
    /\ failed' = IF at = "addPrototypes"
                 THEN failed \cup {i \in DOMAIN tags : ReconstructionFails(tags[i])}
                 ELSE failed
    /\ dedupLive' = IF at = "skipDuplicates"
                    THEN {i \in DOMAIN tags : ~tags[i].SkipMe}
                    ELSE dedupLive
    /\ UNCHANGED <<mainFile, ctagsOutput, result, used, feedVars, consumeVars>>

SkipUnknown   == Pass("tagIsUnknown", skipTagsWhere(tags, "tagIsUnknown"), "tagIsUnhandled")
SkipUnhandled == Pass("tagIsUnhandled", skipTagsWhere(tags, "tagIsUnhandled"), "addPrototypes")
AddPrototypes == Pass("addPrototypes", addPrototypes(tags), "removeDefinedProtypes")
RemoveDefined == Pass("removeDefinedProtypes", removeDefinedProtypes(tags), "skipDuplicates")
SkipDuplicates == Pass("skipDuplicates", skipDuplicates(tags), "prototypeAndCodeDontMatch")
SkipDontMatch == Pass("prototypeAndCodeDontMatch", skipTagsWhere(tags, "prototypeAndCodeDontMatch"), "fixCLinkageTagsDeclarations")
FixCLinkage   == Pass("fixCLinkageTagsDeclarations", fixCLinkageTagsDeclarations(tags), "return")

\* line 82
Return ==
    /\ pc = "return"
    /\ result' = [prototypes |-> toPrototypes(tags),
                  line |-> findLineWhereToInsertPrototypes(tags, mainFile)]
    /\ pc' = "idle"
    /\ UNCHANGED <<tags, mainFile, ctagsOutput, used, failed, dedupLive,
                   feedVars, consumeVars>>

Parse == \E out \in AllOutputs, mf \in MainFiles : ParseRows(out, mf)

Next ==
    \/ Parse
    \/ SkipUnknown
    \/ SkipUnhandled
    \/ AddPrototypes
    \/ RemoveDefined
    \/ SkipDuplicates
    \/ SkipDontMatch
    \/ FixCLinkage
    \/ Return

Spec == Init /\ [][Next]_vars

----------------------------------------------------------------------------
(* parseTag alone, on rows made of every combination of a filename, a value *)
(* of the line field and a pattern field.                                   *)

TagFiles == {"a", "c:\\\\d\\\\e", "c:\\d", "\\\\\\", "\\\\\\\\b", "x\\y\\\\"}

TagLines == {"4", "0", "", "x", "-5", "+7", "12abc", " 9 ",
             "2147483647", "2147483648", "-2147483649"}

TagPatterns == {"", "\t/^void f() {}$/;\"", "\t/^void f() {}", "\t$/;\"/^void f() {}",
                "\t/^$/;\"", "\t$/;x/^void f() {}$/;\"", "\t/^a$/;b$/;\""}

MkRow(file, lv, pat) ==
    "f\t" \o file \o pat \o "\tkind:function\tline:" \o lv
    \o "\tsignature:()\treturntype:void"

TagRows == {MkRow(file, lv, pat) : file \in TagFiles, lv \in TagLines, pat \in TagPatterns}

ParsedTag == [row \in TagRows |-> parseTag(row)]

\* parseTag(row) on a Parser of its own
ParseTagRow(row) ==
    /\ pc = "idle"
    /\ tags' = IF ParsedTag[row].panic THEN <<>> ELSE <<ParsedTag[row].tag>>
    /\ pc' = IF ParsedTag[row].panic THEN "panic" ELSE "idle"
    /\ ctagsOutput' = row
    /\ used' = TRUE
    /\ UNCHANGED <<mainFile, result, failed, dedupLive, feedVars, consumeVars>>

NextTag == \E row \in TagRows : ParseTagRow(row)

SpecTag == Init /\ [][NextTag]_vars

----------------------------------------------------------------------------
(* Parse on a freshly constructed Parser, as one function of its arguments. *)

Pipeline(ts) ==
    fixCLinkageTagsDeclarations(
      skipTagsWhere(
        skipDuplicates(
          removeDefinedProtypes(
            addPrototypes(
              skipTagsWhere(skipTagsWhere(ts, "tagIsUnknown"), "tagIsUnhandled")))),
        "prototypeAndCodeDontMatch"))

ParseOnFresh(out, mf) ==
    LET ts == Pipeline(Parsed[out].tags)
    IN  [prototypes |-> toPrototypes(ts),
         line |-> findLineWhereToInsertPrototypes(ts, mf)]

----------------------------------------------------------------------------
(* The properties. *)

\* a Parse call has returned and no other is in progress
AfterParse == pc = "idle" /\ used

\* the stages of a run after removeDefinedProtypes, and its end
PastDefined ==
    \/ pc \in {"skipDuplicates", "prototypeAndCodeDontMatch",
               "fixCLinkageTagsDeclarations", "return"}
    \/ AfterParse

\* the stages of a run after addPrototypes, and its end
PastAdd == pc = "removeDefinedProtypes" \/ PastDefined

SameText(i) == {j \in DOMAIN tags : tags[j].Prototype = tags[i].Prototype}

\* the Prototype Records of the last result that carry this prototype text
OutputsWith(text) == SelectSeq(result.prototypes, LAMBDA q : q.Prototype = text)

\* C1: skip is monotonic. No step of Parse (no pass of this run, no pass of a
\* later Parse call on the same Parser) sets a record's SkipMe back to false.
C1_SkipMonotonic ==
    [][\A i \in DOMAIN tags : tags[i].SkipMe => tags'[i].SkipMe]_vars

\* A second Parse call has returned, and a record of the first call that the
\* unknown-kind filter skipped, and that the later predicates do not match, is
\* still skipped.
C1_Witness ==
    /\ AfterParse
    /\ Len(tags) > Len(Parsed[ctagsOutput].tags)
    /\ tags[1].SkipMe
    /\ tagIsUnknown(tags[1])
    /\ ~tagIsUnhandled(tags[1])
    /\ ~prototypeAndCodeDontMatch(tags[1])

\* C2 as stated: right after the duplicate filter every set of records with
\* identical prototype text has exactly one survivor, its earliest record.
C2_Original ==
    pc = "prototypeAndCodeDontMatch" =>
        \A i \in DOMAIN tags :
            {j \in SameText(i) : ~tags[j].SkipMe} = {Min(SameText(i))}

\* C2, amended: the duplicate filter leaves, of every set of records with
\* identical prototype text, exactly the earliest record that was not skipped
\* before the filter, and none when all were skipped before it.
C2_Dedup ==
    [][pc = "skipDuplicates" =>
        \A i \in DOMAIN tags :
            LET live == {j \in SameText(i) : ~tags[j].SkipMe}
            IN  {j \in SameText(i) : ~tags'[j].SkipMe} =
                    IF live = {} THEN {} ELSE {Min(live)}]_vars

\* The duplicate filter has run on two function records of identical text that
\* no earlier stage skipped: the first survives, the second is skipped.
C2_Witness ==
    /\ pc = "prototypeAndCodeDontMatch"
    /\ \E i, j \in DOMAIN tags :
        /\ i < j
        /\ tags[i].Prototype = tags[j].Prototype
        /\ tags[i].Kind = kindFunction /\ tags[j].Kind = kindFunction
        /\ isHandled(tags[i]) /\ isHandled(tags[j])
        /\ ~tags[i].SkipMe /\ tags[j].SkipMe

\* C3: from the already-declared filter on, and at the end of Parse, every
\* record that is not of kind prototype and whose prototype text equals that of
\* some prototype-kind record is skipped, whatever the order of the two.
C3_AlreadyDeclared ==
    PastDefined =>
        \A i, j \in DOMAIN tags :
            (/\ tags[i].Kind # kindPrototype
             /\ tags[j].Kind = kindPrototype
             /\ tags[i].Prototype = tags[j].Prototype) => tags[i].SkipMe

\* Parse has returned; a free function of known kind that precedes the
\* prototype-kind record of the same text is skipped.
C3_Witness ==
    /\ AfterParse
    /\ \E i, j \in DOMAIN tags :
        /\ i < j
        /\ tags[i].Kind = kindFunction /\ isHandled(tags[i])
        /\ tags[j].Kind = kindPrototype
        /\ tags[i].Prototype = tags[j].Prototype
        /\ tags[i].SkipMe

\* C4: what a Parse call returns is what a freshly constructed Parser returns
\* for the same (ctags output, main file).
C4_RunPurity ==
    AfterParse => result = ParseOnFresh(ctagsOutput, mainFile)

\* C5: Parse never aborts: parseTag does not panic, whatever the rows.
C5_NoCrash == pc # "panic"

\* C6: at the end of Parse every record with a class, struct or namespace is
\* skipped, and the Prototype Records are as many as the surviving records
\* without one: none is projected from a scoped record.
C6_ScopeFilter ==
    AfterParse =>
        /\ \A i \in DOMAIN tags :
            (tags[i].Class # "" \/ tags[i].Struct # "" \/ tags[i].Namespace # "")
                => tags[i].SkipMe
        /\ Len(result.prototypes) =
            Cardinality({i \in DOMAIN tags :
                ~tags[i].SkipMe /\ tags[i].Class = "" /\ tags[i].Struct = ""
                /\ tags[i].Namespace = ""})

\* Parse has returned with a namespaced function record whose code matches its
\* prototype: it is skipped.
C6_Witness ==
    /\ AfterParse
    /\ \E i \in DOMAIN tags :
        /\ tags[i].Namespace # ""
        /\ tags[i].Kind = kindFunction
        /\ ~prototypeAndCodeDontMatch(tags[i])
        /\ tags[i].SkipMe

\* the static scenario: two free-function records i, j of identical text, only
\* i with "static " in its code, and no prototype-kind record of that text
StaticScenario(i, j) ==
    /\ i # j
    /\ tags[i].Kind = kindFunction /\ tags[j].Kind = kindFunction
    /\ isHandled(tags[i]) /\ isHandled(tags[j])
    /\ tags[i].Prototype = tags[j].Prototype
    /\ Index(tags[i].Prototype, keywordTemplate) # 0
    /\ Contains(tags[i].Code, "static ")
    /\ ~Contains(tags[j].Code, "static ")
    /\ \A k \in DOMAIN tags :
        tags[k].Kind = kindPrototype => tags[k].Prototype # tags[i].Prototype

\* C7 as stated: in the static scenario the output holds exactly one Prototype
\* Record of that text, with modifier text "static", in either order.
C7_Original ==
    AfterParse =>
        \A i, j \in DOMAIN tags :
            StaticScenario(i, j) =>
                LET outs == OutputsWith(tags[i].Prototype)
                IN  Len(outs) = 1 /\ outs[1].Modifiers = "static"

\* C7, amended: in the static scenario the output holds at most one Prototype
\* Record of that text. It is projected from the earliest record of that text
\* that was not skipped when the duplicate filter began, and exists when that
\* record passes the consistency filter; so its modifier text holds "static"
\* when that earliest record is the one with "static " in its code, and does
\* not when the other record comes first.
C7_StaticFirstWins ==
    AfterParse =>
        \A i, j \in DOMAIN tags :
            StaticScenario(i, j) =>
                LET outs  == OutputsWith(tags[i].Prototype)
                    live  == SameText(i) \cap dedupLive
                    first == Min(live)
                IN  /\ Len(outs) <= 1
                    /\ Len(outs) = 1 <=>
                        (live # {} /\ ~prototypeAndCodeDontMatch(tags[first]))
                    /\ Len(outs) = 1 =>
                        /\ outs[1].FunctionName = tags[first].FunctionName
                        /\ outs[1].Line = tags[first].Line
                        /\ Contains(outs[1].Modifiers, keywordStatic)
                            <=> Contains(tags[first].Code, "static ")
                        /\ outs[1].Modifiers \in
                            {"", keywordStatic, keywordExternC,
                             keywordExternC \o " " \o keywordStatic}

\* Parse has returned in the static scenario with the static record first: the
\* one Prototype Record has modifier text "static".
C7_Witness ==
    /\ AfterParse
    /\ \E i, j \in DOMAIN tags :
        /\ i < j
        /\ StaticScenario(i, j)
        /\ Len(OutputsWith(tags[i].Prototype)) = 1
        /\ OutputsWith(tags[i].Prototype)[1].Modifiers = "static"

\* the records of ts whose index is not in F, in order
RECURSIVE Without(_, _)
Without(ts, F) ==
    IF ts = <<>> THEN <<>>
    ELSE Without(SubSeq(ts, 1, Len(ts) - 1), F)
         \o (IF Len(ts) \in F THEN <<>> ELSE <<ts[Len(ts)]>>)

IsDeclarationCut(code, text) ==
    \E n \in 0..Len(code) :
        /\ text = Slice(code, 0, n) \o ";"
        /\ IF \E k \in 1..Len(code) : SubSeq(code, k, k) = "{"
           THEN /\ n < Len(code)
                /\ SubSeq(code, n + 1, n + 1) = "{"
                /\ \A k \in 1..n : SubSeq(code, k, k) # "{"
           ELSE /\ n > 0
                /\ SubSeq(code, n, n) = ")"
                /\ \A k \in (n + 1)..Len(code) : SubSeq(code, k, k) # ")"

\* C9: after addPrototypes and to the end of Parse, every record not skipped
\* whose prototype text and code both start with "template" has as prototype
\* text the code before its first "{", or up to its last ")", followed by ";".
C9_SingleLineTemplate ==
    PastAdd =>
        \A i \in DOMAIN tags :
            (/\ ~tags[i].SkipMe
             /\ Index(tags[i].Prototype, keywordTemplate) = 0
             /\ Index(tags[i].Code, keywordTemplate) = 0)
            => IsDeclarationCut(tags[i].Code, tags[i].Prototype)

\* addPrototypes has run on a template with "{" in its code and on one without:
\* the first is cut before its first "{", the second after its last ")".
C9_Witness ==
    /\ pc = "removeDefinedProtypes"
    /\ \E i, j \in DOMAIN tags :
        /\ ~tags[i].SkipMe /\ ~tags[j].SkipMe
        /\ tags[i].Code = "template<class T> T m(T a) { T b{a}; }"
        /\ tags[i].Prototype = "template<class T> T m(T a) ;"
        /\ tags[j].Code = "template<class T> T n(T (*p)(T));"
        /\ tags[j].Prototype = "template<class T> T n(T (*p)(T));"

\* a value of the line field that is a non-negative integer an int can hold
ValidLine(lv) ==
    LET v == TrimSpace(lv)
        d == IF v # "" /\ Head(v) = "+" THEN Tail(v) ELSE v
    IN  /\ d # ""
        /\ \A k \in 1..Len(d) : IsDigit(SubSeq(d, k, k))
        /\ Magnitude(d, 0) >= 0

\* C10: the line number of a parsed record is never negative, and is 0 when the
\* value of the line field is not a valid non-negative integer.
C10_LineNumber ==
    \A i \in DOMAIN tags :
        /\ tags[i].Line >= 0
        /\ \A file \in TagFiles, lv \in TagLines, pat \in TagPatterns :
            (ctagsOutput = MkRow(file, lv, pat) /\ ~ValidLine(lv))
                => tags[i].Line = 0

\* the surviving records that belong to the main file
MainSurvivors == {i \in DOMAIN tags : ~tags[i].SkipMe /\ tags[i].Filename = mainFile}

\* C11: the insertion line Parse returns is the line of a surviving record of
\* the main file and no such record has a smaller line; when there is no such
\* record it is the sentinel, which is no line number (0 is one).
C11_InsertionLine ==
    AfterParse =>
        IF MainSurvivors = {}
        THEN result.line = NoLine /\ NoLine \notin Nat
        ELSE /\ \E i \in MainSurvivors : result.line = tags[i].Line
             /\ \A i \in MainSurvivors : result.line <= tags[i].Line

\* Parse has returned with two surviving records of the main file, the later
\* one at the smaller line, and that line is the insertion line.
C11_Witness ==
    /\ AfterParse
    /\ \E i, j \in MainSurvivors :
        /\ i < j
        /\ tags[j].Line < tags[i].Line
        /\ result.line = tags[j].Line

\* Parse has returned the sentinel: the only surviving record is of another
\* file than the main file.
C11_WitnessNone ==
    /\ AfterParse
    /\ MainSurvivors = {}
    /\ \E i \in DOMAIN tags : ~tags[i].SkipMe
    /\ result.line = NoLine

RECURSIVE Unescaped(_)
Unescaped(s) ==
    IF s = "" THEN ""
    ELSE IF Len(s) >= 2 /\ SubSeq(s, 1, 1) = "\\" /\ SubSeq(s, 2, 2) = "\\"
    THEN "\\" \o Unescaped(SubSeq(s, 3, Len(s)))
    ELSE SubSeq(s, 1, 1) \o Unescaped(SubSeq(s, 2, Len(s)))

HasEscapedBackslash(s) ==
    \E k \in 1..(Len(s) - 1) : SubSeq(s, k, k) = "\\" /\ SubSeq(s, k + 1, k + 1) = "\\"

\* C13: the filename of a parsed record is field 1 of its row with every two
\* consecutive backslashes, taken left to right without overlap, replaced by
\* one and every other character kept; a field without two consecutive
\* backslashes is stored as it is.
C13_FilenameUnescaped ==
    \A file \in TagFiles, lv \in TagLines, pat \in TagPatterns :
        (ctagsOutput = MkRow(file, lv, pat) /\ tags # <<>>) =>
            /\ tags[1].Filename = Unescaped(file)
            /\ ~HasEscapedBackslash(file) => tags[1].Filename = file

\* parseTag has parsed a row whose filename holds two escaped backslashes, and
\* the record's filename holds two single ones.
C13_Witness ==
    /\ tags # <<>>
    /\ Split(ctagsOutput, "\t")[2] = "c:\\\\d\\\\e"
    /\ tags[1].Filename = "c:\\d\\e"

----------------------------------------------------------------------------
(* FeedStreamTo (package utils): the caller writes to a buffered pipe, a     *)
(* goroutine reads the pipe and passes what it read to the writer callback.  *)
(* The bytes written are numbered in the order they are offered, so that a   *)
(* byte lost, repeated or out of place shows.                                *)

\* the capacity of the pipe's buffer (32 * 1024 in the source), scaled down
BufCap == 3
\* len(data) of the relay goroutine (16384 in the source), scaled down
DataLen == 2
\* bytes the caller offers to Write in all
MaxFeed == 4

\* PipeReader.Read(data) of package nio: with bytes in the buffer it returns up
\* to len(data) of them; with none it returns the close error of either side,
\* or else waits
nioRead(buf, len, werr, rerr) ==
    IF buf # <<>> THEN [wait |-> FALSE, n |-> Min({Len(buf), len}), err |-> "nil"]
    ELSE IF rerr THEN [wait |-> FALSE, n |-> 0, err |-> "ErrClosedPipe"]
    ELSE IF werr THEN [wait |-> FALSE, n |-> 0, err |-> "EOF"]
    ELSE [wait |-> TRUE, n |-> 0, err |-> "nil"]

\* the loop of PipeWriter.Write of package nio, from where p is what is left to
\* write, up to its return or to where it has to wait for space
WriteLoop(p) ==
    IF p = <<>>
    THEN /\ fCaller' = "idle" /\ fRet' = "nil" /\ fPending' = <<>>
         /\ UNCHANGED <<fBuf, fAccepted>>
    ELSE IF Len(fBuf) = BufCap /\ ~fRerr /\ ~fWerr
    THEN /\ fCaller' = "write" /\ fPending' = p
         /\ UNCHANGED <<fBuf, fAccepted, fRet>>
    ELSE IF fRerr \/ fWerr
    THEN /\ fCaller' = "idle" /\ fRet' = "ErrClosedPipe" /\ fPending' = <<>>
         /\ UNCHANGED <<fBuf, fAccepted>>
    ELSE LET m    == Min({BufCap - Len(fBuf), Len(p)})
             rest == SubSeq(p, m + 1, Len(p))
         IN  /\ fBuf' = fBuf \o SubSeq(p, 1, m)
             /\ fAccepted' = fAccepted \o SubSeq(p, 1, m)
             /\ IF rest = <<>>
                THEN fCaller' = "idle" /\ fRet' = "nil" /\ fPending' = <<>>
                ELSE fCaller' = "write" /\ fPending' = rest /\ UNCHANGED fRet

\* w.Write(p) with len bytes, by the caller
FeedWrite(len) ==
    /\ fCaller = "idle"
    /\ fOffered + len <= MaxFeed
    /\ fOffered' = fOffered + len
    /\ IF fWerr
       THEN /\ fRet' = "ErrClosedPipe"
            /\ UNCHANGED <<fBuf, fAccepted, fCaller, fPending>>
       ELSE WriteLoop([i \in 1..len |-> fOffered + i])
    /\ UNCHANGED <<fWerr, fRerr, fPc, fData, fDone, fAtClose, fDelivered, fCalls>>
    /\ UNCHANGED <<parserVars, consumeVars>>

\* a Write that waited for space goes on
FeedWriteResume ==
    /\ fCaller = "write"
    /\ ~(Len(fBuf) = BufCap /\ ~fRerr /\ ~fWerr)
    /\ WriteLoop(fPending)
    /\ UNCHANGED <<fWerr, fRerr, fPc, fData, fDone, fOffered, fAtClose, fDelivered,
                   fCalls>>
    /\ UNCHANGED <<parserVars, consumeVars>>

\* w.Close(), by the caller (from another goroutine when a Write is waiting)
FeedClose ==
    /\ ~fWerr
    /\ fWerr' = TRUE
    /\ fAtClose' = fAccepted
    /\ UNCHANGED <<fBuf, fRerr, fPc, fData, fDone, fCaller, fPending, fRet, fOffered,
                   fAccepted, fDelivered, fCalls>>
    /\ UNCHANGED <<parserVars, consumeVars>>

\* r.Read(data) returning an error although bytes are left in the buffer, once
\* the write side is closed
RelayReadClosedFirst ==
    /\ fPc = "read"
    /\ LET r == IF fWerr THEN [wait |-> FALSE, n |-> 0, err |-> "EOF"]
                ELSE nioRead(fBuf, DataLen, fWerr, fRerr)
       IN  /\ ~r.wait
           /\ fData' = SubSeq(fBuf, 1, r.n)
           /\ fBuf' = SubSeq(fBuf, r.n + 1, Len(fBuf))
           /\ fPc' = IF r.err = "nil" THEN "writer" ELSE "close"
    /\ UNCHANGED <<fWerr, fRerr, fDone, fCaller, fPending, fRet, fOffered, fAccepted,
                   fAtClose, fDelivered, fCalls>>
    /\ UNCHANGED <<parserVars, consumeVars>>

\* line 39: n, err := r.Read(data)
RelayRead ==
    /\ fPc = "read"
    /\ LET r == nioRead(fBuf, DataLen, fWerr, fRerr)
       IN  /\ ~r.wait
           /\ fData' = SubSeq(fBuf, 1, r.n)
           /\ fBuf' = SubSeq(fBuf, r.n + 1, Len(fBuf))
           /\ fPc' = IF r.err = "nil" THEN "writer" ELSE "close"
    /\ UNCHANGED <<fWerr, fRerr, fDone, fCaller, fPending, fRet, fOffered, fAccepted,
                   fAtClose, fDelivered, fCalls>>
    /\ UNCHANGED <<parserVars, consumeVars>>

\* line 40: writer(data[:n]) is called
RelayCall ==
    /\ fPc = "writer"
    /\ fDelivered' = fDelivered \o fData
    /\ fCalls' = fCalls + 1
    /\ fPc' = "in writer"
    /\ UNCHANGED <<fBuf, fWerr, fRerr, fData, fDone, fCaller, fPending, fRet, fOffered,
                   fAccepted, fAtClose>>
    /\ UNCHANGED <<parserVars, consumeVars>>

\* the writer callback returns; lines 44-46 choose between the sleep and the
\* next Read
CallbackReturn ==
    /\ fPc = "in writer"
    /\ fCalls' = fCalls - 1
    /\ fPc' = IF Len(fData) < DataLen THEN "sleep" ELSE "read"
    /\ UNCHANGED <<fBuf, fWerr, fRerr, fData, fDone, fCaller, fPending, fRet, fOffered,
                   fAccepted, fAtClose, fDelivered>>
    /\ UNCHANGED <<parserVars, consumeVars>>

\* line 45: time.Sleep returns
RelaySleep ==
    /\ fPc = "sleep"
    /\ fPc' = "read"
    /\ UNCHANGED <<fBuf, fWerr, fRerr, fData, fDone, fCaller, fPending, fRet, fOffered,
                   fAccepted, fAtClose, fDelivered, fCalls>>
    /\ UNCHANGED <<parserVars, consumeVars>>

\* line 48: r.Close()
RelayClose ==
    /\ fPc = "close"
    /\ fRerr' = TRUE
    /\ fPc' = "return"
    /\ UNCHANGED <<fBuf, fWerr, fData, fDone, fCaller, fPending, fRet, fOffered,
                   fAccepted, fAtClose, fDelivered, fCalls>>
    /\ UNCHANGED <<parserVars, consumeVars>>

\* the goroutine returning without the deferred cancel
RelayReturnNoCancel ==
    /\ fPc = "return"
    /\ fPc' = "done"
    /\ UNCHANGED <<fBuf, fWerr, fRerr, fData, fDone, fCaller, fPending, fRet, fOffered,
                   fAccepted, fAtClose, fDelivered, fCalls>>
    /\ UNCHANGED <<parserVars, consumeVars>>

\* line 49 and the deferred cancel() of line 36
RelayReturn ==
    /\ fPc = "return"
    /\ fDone' = TRUE
    /\ fPc' = "done"
    /\ UNCHANGED <<fBuf, fWerr, fRerr, fData, fCaller, fPending, fRet, fOffered,
                   fAccepted, fAtClose, fDelivered, fCalls>>
    /\ UNCHANGED <<parserVars, consumeVars>>

\* the steps of the relay goroutine, the return of the callback included
FeedRelay ==
    \/ RelayRead
    \/ RelayCall
    \/ CallbackReturn
    \/ RelaySleep
    \/ RelayClose
    \/ RelayReturn

NextFeed ==
    \/ \E len \in 0..MaxFeed : FeedWrite(len)
    \/ FeedWriteResume
    \/ FeedClose
    \/ FeedRelay

SpecFeed == Init /\ [][NextFeed]_vars

\* the goroutine is scheduled while it can take a step, and every call of the
\* writer callback returns
FairSpecFeed == SpecFeed /\ WF_vars(FeedRelay)

\* C14: once Close has been called on the writer, the context eventually
\* becomes done and the relay goroutine has terminated (every call of the
\* writer callback returning).
C14_FeedCompletes == fWerr ~> (fDone /\ fPc = "done")

\* The writer was closed with bytes still to be relayed, and the context is
\* done, the goroutine terminated.
C14_Witness ==
    /\ fWerr /\ fDone /\ fPc = "done"
    /\ Len(fAtClose) > 0

\* C15: whenever the context is done, the writer has been closed and the
\* chunks passed to the writer callback, concatenated, are the bytes Write had
\* accepted when Close was called, in order; and no two invocations of the
\* callback are in progress at once.
C15_FeedDelivery ==
    /\ fDone => (fWerr /\ fDelivered = fAtClose /\ fAtClose = fAccepted)
    /\ fCalls <= 1

\* The context is done after more bytes than the buffer holds were accepted and
\* delivered: a Write has waited for space and the relay has looped.
C15_Witness ==
    /\ fDone
    /\ Len(fDelivered) > BufCap
    /\ fDelivered = fAccepted

----------------------------------------------------------------------------
(* ConsumeStreamFrom (package utils): a goroutine calls the reader function  *)
(* and writes what it returns to an io.Pipe, whose read side is the          *)
(* consumer's.  An io.Pipe has no buffer: a Write hands its bytes to Reads   *)
(* and returns when all are taken.  The consumer holds an io.Reader, which   *)
(* has no Close; the chunks' bytes are numbered in the order of the chunks.  *)

\* calls of the reader function
MaxCalls == 3
\* bytes of one chunk the reader function returns
MaxChunk == 3
\* len(p) of the consumer's Read(p)
MaxReadLen == 2

\* what the reader function may return as its error
ReaderErrors == {"nil", "EOF", "ErrA", "ErrB"}

\* the pipe closed with w.Close() whatever the error
closeErrorAlwaysEOF(err) == "EOF"

\* lines 63-67: what Read returns once the write side is closed: io.EOF after
\* w.Close(), err after w.CloseWithError(err)
closeError(err) == IF err = "EOF" THEN "EOF" ELSE err

\* lines 62-70: data, err := reader(), then the close of the pipe or the start
\* of w.Write(data)
ReaderCall(len, err) ==
    /\ cPc = "reader"
    /\ Len(cRets) < MaxCalls
    /\ cRets' = Append(cRets, err)
    /\ IF err # "nil"
       THEN /\ cWerr' = closeError(err)
            /\ cPc' = "done"
            /\ UNCHANGED <<cPending, cChunks>>
       ELSE LET data == [i \in 1..len |-> Len(cChunks) + i]
            IN  /\ cChunks' = cChunks \o data
                /\ cPending' = data
                /\ cPc' = "write"
                /\ UNCHANGED cWerr
    /\ UNCHANGED <<cRead, cLast>>
    /\ UNCHANGED <<parserVars, feedVars>>

\* Read(p) of the consumer, len(p) = len: it takes bytes of the Write in
\* progress (which returns when none is left), or returns the close error;
\* with neither a Write in progress nor the pipe closed it waits
ConsumerRead(len) ==
    /\ cPc \in {"write", "done"}
    /\ IF cPc = "done"
       THEN /\ cLast' = [n |-> 0, err |-> cWerr]
            /\ UNCHANGED <<cPc, cPending, cRead>>
       ELSE LET n == Min({len, Len(cPending)})
            IN  /\ cRead' = cRead \o SubSeq(cPending, 1, n)
                /\ cPending' = SubSeq(cPending, n + 1, Len(cPending))
                /\ cLast' = [n |-> n, err |-> "nil"]
                /\ cPc' = IF n = Len(cPending) THEN "reader" ELSE "write"
    /\ UNCHANGED <<cWerr, cRets, cChunks>>
    /\ UNCHANGED <<parserVars, feedVars>>

NextConsume ==
    \/ \E len \in 0..MaxChunk, err \in ReaderErrors : ReaderCall(len, err)
    \/ \E len \in 1..MaxReadLen : ConsumerRead(len)

SpecConsume == Init /\ [][NextConsume]_vars

\* C16: the bytes the consumer has read, with those of the Write in progress,
\* are the chunks the reader function returned before its first error, in call
\* order; a Read of the consumer returns an error only after all of them, and
\* it is the error the reader function returned (io.EOF, the clean end of the
\* stream, when that was it); and the reader function is not called again
\* after it returned an error.
C16_ConsumeRelay ==
    /\ cRead \o cPending = cChunks
    /\ \A i \in 1..(Len(cRets) - 1) : cRets[i] = "nil"
    /\ cPc = "done" => (cRets # <<>> /\ cRets[Len(cRets)] # "nil" /\ cPending = <<>>)
    /\ cLast.err # "nil" =>
        /\ cPc = "done"
        /\ cLast.err = cRets[Len(cRets)]
        /\ cLast.n = 0
        /\ cRead = cChunks

\* The consumer has read two chunks, one of them in more than one Read, and
\* then the error the reader function returned, which is not io.EOF.
C16_Witness ==
    /\ cLast.err = "ErrA"
    /\ Len(cRets) = 3
    /\ Len(cRead) > MaxReadLen
    /\ cRead = cChunks

\* C17 as stated: both filters build their lookup set from all records, the
\* already-skipped ones included: a prototype-kind record, skipped or not,
\* makes the already-declared filter skip every record of its text, and a
\* record skipped before the duplicate filter makes that filter skip every
\* later record of its text.
C17_Original ==
    [][/\ pc = "removeDefinedProtypes" =>
            \A i, j \in DOMAIN tags :
                (tags[j].Kind = kindPrototype /\ tags[j].Prototype = tags[i].Prototype)
                    => tags'[i].SkipMe
       /\ pc = "skipDuplicates" =>
            \A i, j \in DOMAIN tags :
                (j < i /\ tags[j].SkipMe /\ tags[j].Prototype = tags[i].Prototype)
                    => tags'[i].SkipMe]_vars

\* C17, amended: the two filters differ. The already-declared filter builds
\* its set from every prototype-kind record, the already-skipped ones included,
\* and skips exactly the records whose text is in it. The duplicate filter
\* registers a text only when it keeps a record: it skips exactly the records
\* that follow a record of the same text that was not skipped when the filter
\* began, so a record skipped earlier registers nothing.
C17_LookupSets ==
    [][/\ pc = "removeDefinedProtypes" =>
            \A i \in DOMAIN tags :
                tags'[i].SkipMe <=>
                    \/ tags[i].SkipMe
                    \/ \E j \in DOMAIN tags :
                        /\ tags[j].Kind = kindPrototype
                        /\ tags[j].Prototype = tags[i].Prototype
       /\ pc = "skipDuplicates" =>
            \A i \in DOMAIN tags :
                tags'[i].SkipMe <=>
                    \/ tags[i].SkipMe
                    \/ \E j \in 1..(i - 1) :
                        /\ ~tags[j].SkipMe
                        /\ tags[j].Prototype = tags[i].Prototype]_vars

\* The duplicate filter has run on a record that follows a record of the same
\* text skipped by an earlier stage, and has kept it.
C17_Witness ==
    /\ pc = "prototypeAndCodeDontMatch"
    /\ \E i, j \in DOMAIN tags :
        /\ j < i
        /\ tags[j].Prototype = tags[i].Prototype
        /\ tags[j].SkipMe /\ j \notin dedupLive
        /\ ~tags[i].SkipMe

\* the Parse call that has returned is the only one that added records: the
\* Parser holds what a fresh Parser holds after that call
OnFreshParser == AfterParse /\ Len(tags) = Len(Parsed[ctagsOutput].tags)

\* the indices of the surviving records, in order
RECURSIVE Survivors(_)
Survivors(n) ==
    IF n = 0 THEN <<>>
    ELSE Survivors(n - 1) \o (IF tags[n].SkipMe THEN <<>> ELSE <<n>>)

\* C18: in the Prototype list a Parse call on a fresh Parser returns, no two
\* Prototype Records have the same prototype text, and each is produced by the
\* first record of its text, in indexer order, that was not skipped when the
\* duplicate filter began.
C18_OnePerText ==
    OnFreshParser =>
        LET live == Survivors(Len(tags))
            outs == result.prototypes
        IN  /\ \A a, b \in DOMAIN outs : a # b => outs[a].Prototype # outs[b].Prototype
            /\ Len(outs) = Len(live)
            /\ \A a \in DOMAIN outs :
                /\ outs[a].Prototype = tags[live[a]].Prototype
                /\ outs[a].FunctionName = tags[live[a]].FunctionName
                /\ live[a] \in dedupLive
                /\ live[a] = Min(SameText(live[a]) \cap dedupLive)

\* Parse has returned on a fresh Parser with two records of the same text that
\* both reached the duplicate filter: the one Prototype Record of that text is
\* the first one's.
C18_Witness ==
    /\ OnFreshParser
    /\ \E i, j \in dedupLive :
        /\ i < j
        /\ tags[i].Prototype = tags[j].Prototype
        /\ tags[i].Line # tags[j].Line
        /\ Len(OutputsWith(tags[i].Prototype)) = 1
        /\ OutputsWith(tags[i].Prototype)[1].Line = tags[i].Line

\* the 0-based indices at which sub occurs in s
Occurrences(s, sub) == {i \in 0..(Len(s) - Len(sub)) : OccursAt(s, sub, i)}

\* the part of a row strictly between its first "/^" and the first "$/;" that
\* follows it; empty when there is no "/^", or no "$/;" after it
SnippetOf(row) ==
    LET opens  == Occurrences(row, "/^")
        lo     == Min(opens) + 2
        closes == {i \in Occurrences(row, "$/;") : i >= lo}
    IN  IF opens = {} \/ closes = {} THEN "" ELSE Slice(row, lo, Min(closes))

\* C19: parseTag fails on no row, and the code snippet of the record is the
\* part of the row strictly between its first "/^" and the first "$/;" that
\* follows it, empty when either is missing; so also on a row where a "$/;"
\* comes before the first "/^".
C19_CodeSnippet ==
    \A file \in TagFiles, lv \in TagLines, pat \in TagPatterns :
        ctagsOutput = MkRow(file, lv, pat) =>
            /\ pc # "panic"
            /\ tags # <<>>
            /\ tags[1].Code = SnippetOf(ctagsOutput)

\* C20: a Parse that returns leaves unskipped only records of kind "function",
\* and projects only those: the unknown-kind filter leaves every record of
\* another kind than "function" and "prototype" skipped, and the
\* already-declared filter leaves every record of kind "prototype" skipped.
C20_SurvivorsAreFunctions ==
    [][/\ pc = "tagIsUnknown" =>
            \A i \in DOMAIN tags :
                tags[i].Kind \notin {kindFunction, kindPrototype} => tags'[i].SkipMe
       /\ pc = "removeDefinedProtypes" =>
            \A i \in DOMAIN tags : tags[i].Kind = kindPrototype => tags'[i].SkipMe
       /\ pc = "return" =>
            /\ \A i \in DOMAIN tags : ~tags[i].SkipMe => tags[i].Kind = kindFunction
            /\ Len(result'.prototypes) =
                Cardinality({i \in DOMAIN tags :
                    ~tags[i].SkipMe /\ tags[i].Kind = kindFunction})]_vars

\* Parse has returned with a free prototype-kind record whose code matches its
\* text, skipped, and a function record as the one Prototype Record.
C20_Witness ==
    /\ AfterParse
    /\ \E i, j \in DOMAIN tags :
        /\ tags[i].Kind = kindPrototype /\ isHandled(tags[i])
        /\ ~prototypeAndCodeDontMatch(tags[i])
        /\ tags[i].SkipMe
        /\ tags[j].Kind = kindFunction /\ ~tags[j].SkipMe
    /\ Len(result.prototypes) = 1

====
